---- MODULE Spec2Model ----
(***************************************************************************)
(* The two scripts of CrewAI-Playground as one state machine.              *)
(*                                                                         *)
(*   conflict-detector/main.py   main -> analyze_text_for_conflicts        *)
(*   script-writer/main.py       main -> create_podcast_script             *)
(*                                                                         *)
(* A behaviour is one run of one of the two programs.  The environment     *)
(* (the two credential variables, the line waiting on standard input) is   *)
(* chosen in Init.  The external framework is modelled by what the code    *)
(* can observe of it: a constructor or crew.kickoff() either returns or    *)
(* raises an Exception, and kickoff produces network traffic.              *)
(* Printed lines are sequences of tokens, so that an f-string is the       *)
(* concatenation of its fixed text and str(error) / str(result).           *)
(* An error is an Exception, which is what both except clauses catch;      *)
(* print() is taken to succeed.                                            *)
(***************************************************************************)
EXTENDS Integers, Sequences, FiniteSets, TLC

VARIABLES
    program,         \* which of the two scripts is run
    env,             \* os.environ restricted to the two credential variables
    stdin,           \* what input() will find on standard input
    pc,              \* position of the run
    topic,           \* script-writer main: topic
    llm,             \* local llm of the pipeline function
    agent,           \* conflict-detector: agent
    task,            \* conflict-detector: task
    research_agent,  \* script-writer: research_agent
    script_agent,    \* script-writer: script_agent
    research_task,   \* script-writer: research_task
    script_task,     \* script-writer: script_task
    crew,            \* local crew
    result,          \* local result of the pipeline function
    exc,             \* the exception propagating right now
    out,             \* standard output: the printed lines, in order
    steps,           \* history: the pipeline steps started, in order
    net,             \* history: the network calls made, in order
    kickoffs,        \* history: number of crew.kickoff() calls
    kicked,          \* history: the crew kickoff() was called on
    kickoff_value,   \* history: what crew.kickoff() returned
    caught,          \* history: the except clauses that caught, in order
    tryError,        \* history: the error first raised inside the try body
    fn_outcome       \* history: how the pipeline function ended

vars == << program, env, stdin, pc, topic, llm, agent, task, research_agent,
           script_agent, research_task, script_task, crew, result, exc, out,
           steps, net, kickoffs, kicked, kickoff_value, caught, tryError,
           fn_outcome >>

----------------------------------------------------------------------------
(* Bounds *)

MaxTopicLen == 3

----------------------------------------------------------------------------
(* Values *)

None == [kind |-> "None"]

Unset == "<unset>"

EnvValues == {Unset, "", "key"}

Chars == {" ", "a"}

Lines == UNION {[1..n -> Chars] : n \in 0..MaxTopicLen}

Range(s) == {s[i] : i \in 1..Len(s)}

\* The pipeline function has neither returned nor raised yet.
Running == [how |-> "running"]

\* Python truthiness of what os.getenv returns: None and "" are falsy.
Truthy(v) == v # Unset /\ v # ""

getenv(name) == env[name]

\* str.strip(): drop leading and trailing whitespace.
RECURSIVE lstrip(_)
lstrip(s) == IF s # <<>> /\ Head(s) = " " THEN lstrip(Tail(s)) ELSE s

RECURSIVE rstrip(_)
rstrip(s) ==
    IF s # <<>> /\ s[Len(s)] = " " THEN rstrip(SubSeq(s, 1, Len(s) - 1)) ELSE s

strip_identity(s) == s

strip(s) == rstrip(lstrip(s))

----------------------------------------------------------------------------
(* The framework's objects, as the keyword arguments they are built from *)

LLM(model, api_key, temperature) ==
    [kind |-> "LLM", model |-> model, api_key |-> api_key,
     temperature |-> temperature]

Agent(role, tools, l) ==
    [kind |-> "Agent", role |-> role, tools |-> tools,
     allow_delegation |-> FALSE, llm |-> l]

Task(description, a, context) ==
    [kind |-> "Task", description |-> description, agent |-> a,
     context |-> context]

Crew(agents, tasks) == [kind |-> "Crew", agents |-> agents, tasks |-> tasks]

\* conflict-detector
create_conflict_detection_agent(l) == Agent("Critical Thinker", <<>>, l)

create_analysis_task(a, text_to_analyze) ==
    Task(<<"Find if there are any conflicting statement", text_to_analyze>>,
         a, <<>>)

sample_text == "It's a sunny day, let me take an umbrella to the office."

\* script-writer
create_research_agent(l) ==
    Agent("Research Specialist", <<"duckduckgo_search">>, l)

create_podcast_script_agent(l) == Agent("Podcast Script Writer", <<>>, l)

create_research_task(a, t) == Task(<<"Research the topic", t>>, a, <<>>)

create_script_writing_task_no_context(a, rt) ==
    Task(<<"Using the research provided, create a podcast script">>, a, <<>>)

create_script_writing_task(a, rt) ==
    Task(<<"Using the research provided, create a podcast script">>, a, <<rt>>)

----------------------------------------------------------------------------
(* Exceptions and the text they carry *)

Error(type, msg) == [kind |-> "Error", type |-> type, msg |-> msg]

CD_MissingKey ==
    Error("ValueError",
          <<"GOOGLE_API_KEY",
            "environment variable is required. Please set it with your Google API key.">>)

SW_MissingKey ==
    Error("ValueError",
          <<"No API key found. Please set either", "GOOGLE_API_KEY", "or",
            "OPENAI_API_KEY", "environment variable.">>)

\* What the framework raises when a constructor or kickoff fails.
FrameworkError(site) == Error("Exception", <<site, "failed">>)

EOFError == Error("EOFError", <<"EOF when reading a line">>)

\* The network calls one kickoff can make before it returns or raises.
Traffic ==
    IF program = "conflict-detector"
    THEN {<<"llm">>, <<"llm", "llm">>}
    ELSE {<<"llm">>, <<"llm", "search">>, <<"llm", "search", "llm">>}

\* The texts kickoff can return.
Results ==
    IF program = "conflict-detector"
    THEN {"conflict", "no conflict"}
    ELSE {"script one", "script two"}

Outcomes == {"returns", "raises"}

----------------------------------------------------------------------------
(* Initial state: the program, its environment, nothing run yet *)

Init ==
    /\ program \in {"conflict-detector", "script-writer"}
    /\ env \in [{"GOOGLE_API_KEY", "OPENAI_API_KEY"} -> EnvValues]
    /\ stdin \in {[eof |-> TRUE, line |-> <<>>]}
                 \cup {[eof |-> FALSE, line |-> l] : l \in Lines}
    /\ pc = "main"
    /\ topic = <<>>        \* not yet bound
    /\ llm = None
    /\ agent = None
    /\ task = None
    /\ research_agent = None
    /\ script_agent = None
    /\ research_task = None
    /\ script_task = None
    /\ crew = None
    /\ result = None
    /\ exc = None
    /\ out = <<>>
    /\ steps = <<>>
    /\ net = <<>>
    /\ kickoffs = 0
    /\ kicked = None
    /\ kickoff_value = None
    /\ caught = <<>>
    /\ tryError = None
    /\ fn_outcome = Running

Environment == << program, env, stdin >>

CDLocals == << agent, task >>

SWLocals == << topic, research_agent, script_agent, research_task, script_task >>

KickoffHistory == << net, kickoffs, kicked, kickoff_value >>

\* An exception e leaves the try body of the pipeline function.
RaiseInTry(e) ==
    /\ exc' = e
    /\ tryError' = e
    /\ pc' = "except_fn"

\* str(result): the text crew.kickoff() returned.
Text(r) == [kind |-> "str", text |-> r]

Rule == <<"====">>

Dash == <<"----">>

----------------------------------------------------------------------------
(* conflict-detector/main.py *)

\* main(), up to the call of analyze_text_for_conflicts
CD_main ==
    /\ program = "conflict-detector"
    /\ pc = "main"
    /\ out' = out \o << Rule, <<"CrewAI Conflict Detection Example">>, Rule,
                        <<"Analyzing text:", sample_text>>, Dash >>
    /\ pc' = "setup_llm"
    /\ UNCHANGED << Environment, CDLocals, SWLocals, KickoffHistory, llm, crew,
                    result, exc, steps, caught, tryError, fn_outcome >>

\* Step 1: llm = setup_llm(), with the credential check dropped
CD_setup_llm_unchecked ==
    /\ program = "conflict-detector"
    /\ pc = "setup_llm"
    /\ out' = Append(out, <<"Setting up Gemini LLM...">>)
    /\ steps' = steps \o <<"read_credential", "build_llm">>
    /\ llm' = LLM("gemini/gemini-1.5-flash", getenv("GOOGLE_API_KEY"), "0.1")
    /\ pc' = "create_agent"
    /\ UNCHANGED << Environment, CDLocals, SWLocals, KickoffHistory, crew,
                    result, exc, caught, tryError, fn_outcome >>

\* Step 1: llm = setup_llm()
CD_setup_llm ==
    /\ program = "conflict-detector"
    /\ pc = "setup_llm"
    /\ out' = Append(out, <<"Setting up Gemini LLM...">>)
    /\ LET api_key == getenv("GOOGLE_API_KEY") IN
       IF ~Truthy(api_key)
       THEN /\ steps' = Append(steps, "read_credential")
            /\ RaiseInTry(CD_MissingKey)
            /\ UNCHANGED llm
       ELSE /\ steps' = steps \o <<"read_credential", "build_llm">>
            /\ \E o \in Outcomes :
                 IF o = "returns"
                 THEN /\ llm' = LLM("gemini/gemini-1.5-flash", api_key, "0.1")
                      /\ pc' = "create_agent"
                      /\ UNCHANGED << exc, tryError >>
                 ELSE /\ RaiseInTry(FrameworkError("LLM"))
                      /\ UNCHANGED llm
    /\ UNCHANGED << Environment, CDLocals, SWLocals, KickoffHistory, crew,
                    result, caught, fn_outcome >>

\* Step 2 jumping straight to the crew, the task never built
CD_create_agent_skips_task ==
    /\ program = "conflict-detector"
    /\ pc = "create_agent"
    /\ out' = Append(out, <<"Creating Critical Thinker agent...">>)
    /\ steps' = Append(steps, "build_agent")
    /\ agent' = create_conflict_detection_agent(llm)
    /\ pc' = "crew"
    /\ UNCHANGED << Environment, SWLocals, KickoffHistory, llm, task, crew,
                    result, exc, caught, tryError, fn_outcome >>

\* Step 2: agent = create_conflict_detection_agent(llm)
CD_create_agent ==
    /\ program = "conflict-detector"
    /\ pc = "create_agent"
    /\ out' = Append(out, <<"Creating Critical Thinker agent...">>)
    /\ steps' = Append(steps, "build_agent")
    /\ \E o \in Outcomes :
         IF o = "returns"
         THEN /\ agent' = create_conflict_detection_agent(llm)
              /\ pc' = "create_task"
              /\ UNCHANGED << exc, tryError >>
         ELSE /\ RaiseInTry(FrameworkError("Agent"))
              /\ UNCHANGED agent
    /\ UNCHANGED << Environment, SWLocals, KickoffHistory, llm, task, crew,
                    result, caught, fn_outcome >>

\* Step 3: task = create_analysis_task(agent, text)
CD_create_task ==
    /\ program = "conflict-detector"
    /\ pc = "create_task"
    /\ out' = Append(out, <<"Setting up conflict detection task...">>)
    /\ steps' = Append(steps, "build_task")
    /\ \E o \in Outcomes :
         IF o = "returns"
         THEN /\ task' = create_analysis_task(agent, sample_text)
              /\ pc' = "crew"
              /\ UNCHANGED << exc, tryError >>
         ELSE /\ RaiseInTry(FrameworkError("Task"))
              /\ UNCHANGED task
    /\ UNCHANGED << Environment, SWLocals, KickoffHistory, llm, agent, crew,
                    result, caught, fn_outcome >>

\* Step 4: crew = Crew(agents=[agent], tasks=[task], verbose=True)
CD_crew ==
    /\ program = "conflict-detector"
    /\ pc = "crew"
    /\ out' = Append(out, <<"Assembling crew...">>)
    /\ steps' = Append(steps, "build_crew")
    /\ \E o \in Outcomes :
         IF o = "returns"
         THEN /\ crew' = Crew(<<agent>>, <<task>>)
              /\ pc' = "kickoff"
              /\ UNCHANGED << exc, tryError >>
         ELSE /\ RaiseInTry(FrameworkError("Crew"))
              /\ UNCHANGED crew
    /\ UNCHANGED << Environment, CDLocals, SWLocals, KickoffHistory, llm,
                    result, caught, fn_outcome >>

\* Step 5 with a retry: a failed kickoff is attempted again
CD_kickoff_retries ==
    /\ program = "conflict-detector"
    /\ pc = "kickoff"
    /\ out' = Append(out, <<"Starting conflict analysis...">>)
    /\ steps' = Append(steps, "kickoff")
    /\ kickoffs' = kickoffs + 1
    /\ kicked' = crew
    /\ \E t \in Traffic, o \in Outcomes, r \in Results :
         /\ net' = net \o t
         /\ IF o = "returns"
            THEN /\ result' = Text(r)
                 /\ kickoff_value' = Text(r)
                 /\ fn_outcome' = [how |-> "return", value |-> Text(r)]
                 /\ pc' = "main_result"
                 /\ UNCHANGED << exc, tryError >>
            ELSE /\ kickoffs < 2
                 /\ tryError' = FrameworkError("kickoff")
                 /\ UNCHANGED << pc, exc, result, kickoff_value, fn_outcome >>
    /\ UNCHANGED << Environment, CDLocals, SWLocals, llm, crew, caught >>

\* Step 5: result = crew.kickoff(); return result
CD_kickoff ==
    /\ program = "conflict-detector"
    /\ pc = "kickoff"
    /\ out' = Append(out, <<"Starting conflict analysis...">>)
    /\ steps' = Append(steps, "kickoff")
    /\ kickoffs' = kickoffs + 1
    /\ kicked' = crew
    /\ \E t \in Traffic, o \in Outcomes, r \in Results :
         /\ net' = net \o t
         /\ IF o = "returns"
            THEN /\ result' = Text(r)
                 /\ kickoff_value' = Text(r)
                 /\ fn_outcome' = [how |-> "return", value |-> Text(r)]
                 /\ pc' = "main_result"
                 /\ UNCHANGED << exc, tryError >>
            ELSE /\ RaiseInTry(FrameworkError("kickoff"))
                 /\ UNCHANGED << result, kickoff_value, fn_outcome >>
    /\ UNCHANGED << Environment, CDLocals, SWLocals, llm, crew, caught >>

\* The handler swallowing the error: prints it and returns None
CD_analyze_except_swallows ==
    /\ program = "conflict-detector"
    /\ pc = "except_fn"
    /\ caught' = Append(caught, "analyze_text_for_conflicts")
    /\ out' = Append(out, <<"Error during", "analysis:">> \o exc.msg)
    /\ exc' = None
    /\ fn_outcome' = [how |-> "return", value |-> Text("None")]
    /\ pc' = "main_result"
    /\ UNCHANGED << Environment, CDLocals, SWLocals, KickoffHistory, llm, crew,
                    result, steps, tryError >>

\* except Exception as error: print(...); raise
CD_analyze_except ==
    /\ program = "conflict-detector"
    /\ pc = "except_fn"
    /\ caught' = Append(caught, "analyze_text_for_conflicts")
    /\ out' = Append(out, <<"Error during", "analysis:">> \o exc.msg)
    /\ fn_outcome' = [how |-> "raise", error |-> exc]
    /\ pc' = "except_main"
    /\ UNCHANGED << Environment, CDLocals, SWLocals, KickoffHistory, llm, crew,
                    result, exc, steps, tryError >>

\* main(): the prints after analyze_text_for_conflicts returned
CD_main_result ==
    /\ program = "conflict-detector"
    /\ pc = "main_result"
    /\ steps' = Append(steps, "print_result")
    /\ out' = out \o << Rule, <<"Final Result:", fn_outcome.value.text>>, Rule >>
    /\ pc' = "done"
    /\ UNCHANGED << Environment, CDLocals, SWLocals, KickoffHistory, llm, crew,
                    result, exc, caught, tryError, fn_outcome >>

\* main(): except Exception as error, without the error text
CD_main_except_silent ==
    /\ program = "conflict-detector"
    /\ pc = "except_main"
    /\ caught' = Append(caught, "main")
    /\ out' = Append(out, <<"Please check your", "GOOGLE_API_KEY", "and try again.">>)
    /\ exc' = None
    /\ pc' = "done"
    /\ UNCHANGED << Environment, CDLocals, SWLocals, KickoffHistory, llm, crew,
                    result, steps, tryError, fn_outcome >>

\* main(): except Exception as error
CD_main_except ==
    /\ program = "conflict-detector"
    /\ pc = "except_main"
    /\ caught' = Append(caught, "main")
    /\ out' = out \o << <<"Analysis failed:">> \o exc.msg,
                        <<"Please check your", "GOOGLE_API_KEY", "and try again.">> >>
    /\ exc' = None
    /\ pc' = "done"
    /\ UNCHANGED << Environment, CDLocals, SWLocals, KickoffHistory, llm, crew,
                    result, steps, tryError, fn_outcome >>

----------------------------------------------------------------------------
(* script-writer/main.py *)

SW_Banner ==
    << Rule, <<"CrewAI Podcast Script Writer">>, Rule,
       <<"Welcome to the AI-powered podcast script generator!">>,
       <<"This tool will research any topic and create an engaging podcast script.">>,
       Dash, <<"Enter the topic for your podcast script:">> >>

SW_NoTopic ==
    <<"No topic provided. Please run the script again with a valid topic.">>

\* main(), up to the call of create_podcast_script.  input() is outside the
\* try block: end of file on standard input raises EOFError out of main.
SW_main ==
    /\ program = "script-writer"
    /\ pc = "main"
    /\ IF stdin.eof
       THEN /\ out' = out \o SW_Banner
            /\ exc' = EOFError
            /\ pc' = "escaped"
            /\ UNCHANGED topic
       ELSE /\ topic' = strip(stdin.line)
            /\ UNCHANGED exc
            /\ IF topic' = <<>>
               THEN /\ out' = out \o SW_Banner \o << SW_NoTopic >>
                    /\ pc' = "done"
               ELSE /\ out' = out \o SW_Banner
                                  \o << <<"Topic selected:">> \o topic',
                                        <<"Starting the script creation process...">>,
                                        Rule >>
                    /\ pc' = "setup_llm"
    /\ UNCHANGED << Environment, CDLocals, KickoffHistory, llm, research_agent,
                    script_agent, research_task, script_task, crew, result,
                    steps, caught, tryError, fn_outcome >>

\* Step 1: llm = setup_llm()
SW_setup_llm ==
    /\ program = "script-writer"
    /\ pc = "setup_llm"
    /\ LET gemini_api_key == getenv("GOOGLE_API_KEY") IN
       IF Truthy(gemini_api_key)
       THEN /\ out' = out \o << <<"Setting up language model...">>,
                                <<"Using Gemini LLM...">> >>
            /\ steps' = steps \o <<"read_credential", "build_llm">>
            /\ \E o \in Outcomes :
                 IF o = "returns"
                 THEN /\ llm' = LLM("gemini/gemini-1.5-flash", gemini_api_key, "0.7")
                      /\ pc' = "create_research_agent"
                      /\ UNCHANGED << exc, tryError >>
                 ELSE /\ RaiseInTry(FrameworkError("LLM"))
                      /\ UNCHANGED llm
       ELSE /\ out' = Append(out, <<"Setting up language model...">>)
            /\ steps' = Append(steps, "read_credential")
            /\ RaiseInTry(SW_MissingKey)
            /\ UNCHANGED llm
    /\ UNCHANGED << Environment, CDLocals, SWLocals, KickoffHistory, crew,
                    result, caught, fn_outcome >>

\* Step 2: research_agent = create_research_agent(llm)
SW_create_research_agent ==
    /\ program = "script-writer"
    /\ pc = "create_research_agent"
    /\ out' = Append(out, <<"Creating Research Specialist agent...">>)
    /\ steps' = Append(steps, "build_research_agent")
    /\ \E o \in Outcomes :
         IF o = "returns"
         THEN /\ research_agent' = create_research_agent(llm)
              /\ pc' = "create_script_agent"
              /\ UNCHANGED << exc, tryError >>
         ELSE /\ RaiseInTry(FrameworkError("Agent"))
              /\ UNCHANGED research_agent
    /\ UNCHANGED << Environment, CDLocals, KickoffHistory, llm, topic,
                    script_agent, research_task, script_task, crew, result,
                    caught, fn_outcome >>

\* Step 3: script_agent = create_podcast_script_agent(llm)
SW_create_script_agent ==
    /\ program = "script-writer"
    /\ pc = "create_script_agent"
    /\ out' = Append(out, <<"Creating Podcast Script Writer agent...">>)
    /\ steps' = Append(steps, "build_script_agent")
    /\ \E o \in Outcomes :
         IF o = "returns"
         THEN /\ script_agent' = create_podcast_script_agent(llm)
              /\ pc' = "create_research_task"
              /\ UNCHANGED << exc, tryError >>
         ELSE /\ RaiseInTry(FrameworkError("Agent"))
              /\ UNCHANGED script_agent
    /\ UNCHANGED << Environment, CDLocals, KickoffHistory, llm, topic,
                    research_agent, research_task, script_task, crew, result,
                    caught, fn_outcome >>

\* Step 4: research_task = create_research_task(research_agent, topic)
SW_create_research_task ==
    /\ program = "script-writer"
    /\ pc = "create_research_task"
    /\ out' = Append(out, <<"Setting up research task...">>)
    /\ steps' = Append(steps, "build_research_task")
    /\ \E o \in Outcomes :
         IF o = "returns"
         THEN /\ research_task' = create_research_task(research_agent, topic)
              /\ pc' = "create_script_task"
              /\ UNCHANGED << exc, tryError >>
         ELSE /\ RaiseInTry(FrameworkError("Task"))
              /\ UNCHANGED research_task
    /\ UNCHANGED << Environment, CDLocals, KickoffHistory, llm, topic,
                    research_agent, script_agent, script_task, crew, result,
                    caught, fn_outcome >>

\* Step 5: script_task = create_script_writing_task(script_agent, research_task)
SW_create_script_task ==
    /\ program = "script-writer"
    /\ pc = "create_script_task"
    /\ out' = Append(out, <<"Setting up script writing task...">>)
    /\ steps' = Append(steps, "build_script_task")
    /\ \E o \in Outcomes :
         IF o = "returns"
         THEN /\ script_task' = create_script_writing_task(script_agent, research_task)
              /\ pc' = "crew"
              /\ UNCHANGED << exc, tryError >>
         ELSE /\ RaiseInTry(FrameworkError("Task"))
              /\ UNCHANGED script_task
    /\ UNCHANGED << Environment, CDLocals, KickoffHistory, llm, topic,
                    research_agent, script_agent, research_task, crew, result,
                    caught, fn_outcome >>

\* Step 6: crew = Crew(agents=[research_agent, script_agent],
\*                     tasks=[research_task, script_task], verbose=True)
SW_crew ==
    /\ program = "script-writer"
    /\ pc = "crew"
    /\ out' = Append(out, <<"Assembling the podcast production crew...">>)
    /\ steps' = Append(steps, "build_crew")
    /\ \E o \in Outcomes :
         IF o = "returns"
         THEN /\ crew' = Crew(<<research_agent, script_agent>>,
                              <<research_task, script_task>>)
              /\ pc' = "kickoff"
              /\ UNCHANGED << exc, tryError >>
         ELSE /\ RaiseInTry(FrameworkError("Crew"))
              /\ UNCHANGED crew
    /\ UNCHANGED << Environment, CDLocals, SWLocals, KickoffHistory, llm,
                    result, caught, fn_outcome >>

\* Step 7: result = crew.kickoff(); return result
SW_kickoff ==
    /\ program = "script-writer"
    /\ pc = "kickoff"
    /\ out' = out \o << <<"Starting podcast script creation for topic:">> \o topic,
                        Rule >>
    /\ steps' = Append(steps, "kickoff")
    /\ kickoffs' = kickoffs + 1
    /\ kicked' = crew
    /\ \E t \in Traffic, o \in Outcomes, r \in Results :
         /\ net' = net \o t
         /\ IF o = "returns"
            THEN /\ result' = Text(r)
                 /\ kickoff_value' = Text(r)
                 /\ fn_outcome' = [how |-> "return", value |-> Text(r)]
                 /\ pc' = "main_result"
                 /\ UNCHANGED << exc, tryError >>
            ELSE /\ RaiseInTry(FrameworkError("kickoff"))
                 /\ UNCHANGED << result, kickoff_value, fn_outcome >>
    /\ UNCHANGED << Environment, CDLocals, SWLocals, llm, crew, caught >>

\* except Exception as error: print(...); raise
SW_create_except ==
    /\ program = "script-writer"
    /\ pc = "except_fn"
    /\ caught' = Append(caught, "create_podcast_script")
    /\ out' = Append(out, <<"Error during", "script creation:">> \o exc.msg)
    /\ fn_outcome' = [how |-> "raise", error |-> exc]
    /\ pc' = "except_main"
    /\ UNCHANGED << Environment, CDLocals, SWLocals, KickoffHistory, llm, crew,
                    result, exc, steps, tryError >>

\* main(): the prints after create_podcast_script returned
SW_main_result ==
    /\ program = "script-writer"
    /\ pc = "main_result"
    /\ steps' = Append(steps, "print_result")
    /\ out' = out \o << Rule, <<"PODCAST SCRIPT COMPLETE!">>, Rule,
                        <<"FINAL PODCAST SCRIPT">>, Dash,
                        <<fn_outcome.value.text>>, Dash,
                        <<"Script generation complete! Ready for recording!">> >>
    /\ pc' = "done"
    /\ UNCHANGED << Environment, CDLocals, SWLocals, KickoffHistory, llm, crew,
                    result, exc, caught, tryError, fn_outcome >>

\* main(): except Exception as error, printing the banner of success as well
SW_main_except_banner ==
    /\ program = "script-writer"
    /\ pc = "except_main"
    /\ caught' = Append(caught, "main")
    /\ out' = out \o << <<"PODCAST SCRIPT COMPLETE!">>,
                        <<"Script creation failed:">> \o exc.msg >>
    /\ exc' = None
    /\ pc' = "done"
    /\ UNCHANGED << Environment, CDLocals, SWLocals, KickoffHistory, llm, crew,
                    result, steps, tryError, fn_outcome >>

\* main(): except Exception as error
SW_main_except ==
    /\ program = "script-writer"
    /\ pc = "except_main"
    /\ caught' = Append(caught, "main")
    /\ out' = Append(out, <<"Script creation failed:">> \o exc.msg)
    /\ exc' = None
    /\ pc' = "done"
    /\ UNCHANGED << Environment, CDLocals, SWLocals, KickoffHistory, llm, crew,
                    result, steps, tryError, fn_outcome >>

----------------------------------------------------------------------------
(* One run of one program *)

Next ==
    \/ CD_main
    \/ CD_setup_llm
    \/ CD_create_agent
    \/ CD_create_task
    \/ CD_crew
    \/ CD_kickoff
    \/ CD_analyze_except
    \/ CD_main_result
    \/ CD_main_except
    \/ SW_main
    \/ SW_setup_llm
    \/ SW_create_research_agent
    \/ SW_create_script_agent
    \/ SW_create_research_task
    \/ SW_create_script_task
    \/ SW_crew
    \/ SW_kickoff
    \/ SW_create_except
    \/ SW_main_result
    \/ SW_main_except

Spec == Init /\ [][Next]_vars

----------------------------------------------------------------------------
(* Vocabulary of the properties *)

\* The line consists of whitespace only (the empty line included).
AllSpaces(line) == \A i \in 1..Len(line) : line[i] = " "

\* The run gets as far as the pipeline function.
ReachesPipeline ==
    \/ program = "conflict-detector"
    \/ ~stdin.eof /\ ~AllSpaces(stdin.line)

PipelineFn ==
    IF program = "conflict-detector"
    THEN "analyze_text_for_conflicts"
    ELSE "create_podcast_script"

\* The steps of a run that succeeds, in the order of the code.
Pipeline ==
    IF program = "conflict-detector"
    THEN <<"read_credential", "build_llm", "build_agent", "build_task",
           "build_crew", "kickoff", "print_result">>
    ELSE <<"read_credential", "build_llm", "build_research_agent",
           "build_script_agent", "build_research_task", "build_script_task",
           "build_crew", "kickoff", "print_result">>

IsPrefix(s, t) == Len(s) <= Len(t) /\ SubSeq(t, 1, Len(s)) = s

NoDuplicates(s) == \A i, j \in 1..Len(s) : s[i] = s[j] => i = j

Occurrences(s, x) == Cardinality({i \in 1..Len(s) : s[i] = x})

\* The printed line ends with the text msg, after some fixed text.
CarriesText(line, msg) ==
    /\ Len(line) > Len(msg)
    /\ SubSeq(line, Len(line) - Len(msg) + 1, Len(line)) = msg

\* The printed lines that carry str(e).
ErrorLines(e) == {i \in 1..Len(out) : CarriesText(out[i], e.msg)}

StartsWith(line, word) == line # <<>> /\ line[1] = word

Printed(word) == \E i \in 1..Len(out) : StartsWith(out[i], word)

\* Some printed line that carries the error's text names the variable.
NamedInError(name) ==
    /\ tryError # None
    /\ \E i \in ErrorLines(tryError) : name \in Range(out[i])

MissingKey ==
    IF program = "conflict-detector" THEN CD_MissingKey ELSE SW_MissingKey

\* The text is part of some printed line.
Shown(text) == \E i \in 1..Len(out) : text \in Range(out[i])

NoNetwork ==
    /\ net = <<>>
    /\ kickoffs = 0
    /\ llm = None
    /\ "build_llm" \notin Range(steps)

Ended == pc \in {"done", "escaped"}

ResultPrinted ==
    IF program = "conflict-detector"
    THEN Printed("Final Result:")
    ELSE Printed("PODCAST SCRIPT COMPLETE!")

FailurePrinted ==
    IF program = "conflict-detector"
    THEN Printed("Analysis failed:")
    ELSE Printed("Script creation failed:")

----------------------------------------------------------------------------
(* C1 *)

\* C1 as stated: in every run with GOOGLE_API_KEY unset no network call is
\* attempted, the run fails, and a message naming the variable is printed.
C1_AsStated ==
    getenv("GOOGLE_API_KEY") = Unset =>
        /\ NoNetwork
        /\ pc = "done" => NamedInError("GOOGLE_API_KEY")

\* C1, amended: with GOOGLE_API_KEY unset no network call is ever attempted
\* (no LLM handle built, no kickoff, no traffic); every run that gets as far
\* as the pipeline function (each conflict-detector run, each script-writer
\* run that read a topic that is not blank) fails in setup_llm with the
\* missing-credential ValueError, whose text, naming GOOGLE_API_KEY, is
\* printed; a script-writer run with a blank topic or no input ends before
\* the credential is read and prints no such message.
C1_MissingCredential ==
    getenv("GOOGLE_API_KEY") = Unset =>
        /\ NoNetwork
        /\ (pc = "done" /\ ReachesPipeline) =>
              /\ tryError = MissingKey
              /\ steps = <<"read_credential">>
              /\ NamedInError("GOOGLE_API_KEY")
        /\ (Ended /\ ~ReachesPipeline) =>
              /\ steps = <<>>
              /\ tryError = None

C1_Witness ==
    /\ program = "conflict-detector"
    /\ getenv("GOOGLE_API_KEY") = Unset
    /\ pc = "done"
    /\ NamedInError("GOOGLE_API_KEY")

----------------------------------------------------------------------------
(* C2 *)

\* C2: in the script-writer, when the line read is blank, main prints the
\* "No topic provided" message and returns with setup_llm never called, no
\* Agent, Task or Crew built and no kickoff; and any Agent or Task exists
\* only in runs whose line is not blank.
C2_EmptyTopic ==
    program = "script-writer" =>
        /\ (~stdin.eof /\ AllSpaces(stdin.line) /\ pc # "main") =>
              /\ pc = "done"
              /\ out[Len(out)] = SW_NoTopic
              /\ steps = <<>>
              /\ llm = None
              /\ research_agent = None /\ script_agent = None
              /\ research_task = None /\ script_task = None
              /\ crew = None
              /\ kickoffs = 0
        /\ (\/ research_agent # None \/ script_agent # None
            \/ research_task # None \/ script_task # None) =>
              ~stdin.eof /\ ~AllSpaces(stdin.line)

C2_Witness ==
    /\ program = "script-writer"
    /\ ~stdin.eof
    /\ Len(stdin.line) > 1
    /\ AllSpaces(stdin.line)
    /\ pc = "done"

----------------------------------------------------------------------------
(* C3 *)

\* C3: in every script-writer run that reaches kickoff, the script task's
\* context is exactly [research_task], the crew's tasks are
\* [research_task, script_task] in that order, and each task is assigned to
\* its own agent.
C3_TaskWiring ==
    (program = "script-writer" /\ kickoffs > 0) =>
        /\ research_task # None
        /\ script_task # None
        /\ script_task.context = << research_task >>
        /\ kicked.tasks = << research_task, script_task >>
        /\ kicked.tasks[2].context = << kicked.tasks[1] >>
        /\ research_task.agent = research_agent
        /\ script_task.agent = script_agent
        /\ research_agent = create_research_agent(llm)
        /\ script_agent = create_podcast_script_agent(llm)
        /\ research_agent # script_agent

C3_Witness ==
    /\ program = "script-writer"
    /\ kickoffs > 0
    /\ kickoff_value # None

----------------------------------------------------------------------------
(* C4 *)

\* C4 as stated: an error raised by a pipeline step is caught once, by
\* main, and printed once, and does not escape main.
C4_AsStated ==
    /\ (pc = "done" /\ tryError # None) =>
          /\ caught = <<"main">>
          /\ Cardinality(ErrorLines(tryError)) = 1
    /\ pc = "escaped" => tryError = None

\* C4, amended: an error (an Exception) raised by a pipeline step is caught
\* twice: first by the pipeline function's own handler, which prints it and
\* re-raises it, then by main's handler, which prints it again; so exactly
\* two handlers catch it, its text is printed in exactly two lines, and it
\* does not escape main.
C4_CaughtTwice ==
    /\ (pc = "done" /\ tryError # None) =>
          /\ caught = << PipelineFn, "main" >>
          /\ Cardinality(ErrorLines(tryError)) = 2
          /\ exc = None
    /\ tryError = None => caught = <<>>
    /\ tryError # None => pc \in {"except_fn", "except_main", "done"}
    /\ pc = "escaped" => tryError = None

C4_Witness ==
    /\ pc = "done"
    /\ tryError = FrameworkError("kickoff")
    /\ Len(caught) = 2

----------------------------------------------------------------------------
(* C5 *)

\* C5: kickoff is invoked at most once per run; once a step has failed no
\* step is executed again (no retry), no step is ever executed twice, and
\* after kickoff returned it is not invoked again.
C5_NoRetry ==
    /\ [](kickoffs <= 1 /\ NoDuplicates(steps))
    /\ [][tryError # None =>
             steps' = steps /\ kickoffs' = kickoffs /\ net' = net]_vars
    /\ [][kickoff_value # None => kickoffs' = kickoffs]_vars

C5_Witness ==
    /\ kickoffs = 1
    /\ tryError = FrameworkError("kickoff")
    /\ pc = "done"

----------------------------------------------------------------------------
(* C6 *)

\* C6 as stated: the steps occur only in the pipeline's order, and every
\* run reads the credential exactly once.
C6_AsStated ==
    /\ IsPrefix(steps, Pipeline)
    /\ pc = "done" => Occurrences(steps, "read_credential") = 1

\* C6, amended: the steps occur only in the order read credential, build
\* LLM handle, build agents, build tasks, build crew, kickoff, print result;
\* a step happens only if all earlier ones completed without error, none is
\* skipped or reordered; the credential is read at most once, and exactly
\* once in each run that gets as far as the pipeline function; a
\* script-writer run with a blank topic or no input performs no step.
C6_StepOrder ==
    /\ [](/\ IsPrefix(steps, Pipeline)
          /\ (pc = "done" /\ ReachesPipeline) =>
                Occurrences(steps, "read_credential") = 1
          /\ (pc = "done" /\ ReachesPipeline /\ tryError = None) =>
                steps = Pipeline
          /\ ~ReachesPipeline => steps = <<>>)
    /\ [][tryError # None => steps' = steps]_vars

C6_Witness ==
    /\ pc = "done"
    /\ steps = Pipeline
    /\ program = "script-writer"

----------------------------------------------------------------------------
(* C7 *)

\* C7: the script-writer's setup_llm raises its ValueError only when no API
\* key is found for either service, and returns a model whenever
\* GOOGLE_API_KEY or OPENAI_API_KEY holds a key.
C7_EitherKey ==
    (program = "script-writer" /\ tryError = SW_MissingKey) =>
        /\ ~Truthy(getenv("GOOGLE_API_KEY"))
        /\ ~Truthy(getenv("OPENAI_API_KEY"))

----------------------------------------------------------------------------
(* C8 *)

\* C8: the pipeline function never swallows an error: when a step raises it
\* prints an error line and re-raises the same error, and it returns a
\* value only when kickoff returned, the value being kickoff's result.
C8_NeverSwallows ==
    /\ fn_outcome.how = "raise" =>
          /\ tryError # None
          /\ fn_outcome.error = tryError
          /\ \E i \in ErrorLines(tryError) : StartsWith(out[i], "Error during")
    /\ (tryError # None /\ pc \notin {"except_fn"}) => fn_outcome.how = "raise"
    /\ fn_outcome.how = "return" =>
          /\ tryError = None
          /\ kickoff_value # None
          /\ fn_outcome.value = kickoff_value

C8_Witness ==
    /\ program = "conflict-detector"
    /\ fn_outcome.how = "raise"
    /\ fn_outcome.error = FrameworkError("Task")

----------------------------------------------------------------------------
(* C9 *)

\* C9: the final-result output is printed if and only if kickoff returned
\* normally in the run, and it never appears together with main's failure
\* message.
C9_ResultOrFailure ==
    /\ ResultPrinted => kickoff_value # None /\ Shown(kickoff_value.text)
    /\ pc = "done" => (ResultPrinted <=> kickoff_value # None)
    /\ ~(ResultPrinted /\ FailurePrinted)
    /\ FailurePrinted => kickoff_value = None

C9_Witness ==
    /\ program = "script-writer"
    /\ pc = "done"
    /\ ResultPrinted
    /\ kickoff_value = Text("script two")

====
